---- MODULE Spec2Model ----
(***************************************************************************)
(* Model of Assets/generate_assets.py: the asset generator of the Chinese  *)
(* Chess application.  The state is the output tree (directories and PNG    *)
(* files), the state of Python's random generator, the console output and  *)
(* the position of main().  Each of the six generation routines is one      *)
(* action; a routine is the sequence of os.makedirs and Image.save calls    *)
(* it issues, executed until the first call that raises.                    *)
(***************************************************************************)
EXTENDS Integers, Sequences, FiniteSets, TLC

VARIABLES
    dirs,        \* directories that exist below ASSETS_DIR (sequences of names)
    files,       \* the PNG files on disk: path -> image
    rng,         \* state of the module-level random generator
    out,         \* lines printed so far by the current run
    pc,          \* "running", "done" (main returned) or "crashed" (uncaught exception)
    idx,         \* position of main(): index of the next routine to call
    order,       \* the order in which the driver calls the six routines
    outcome,     \* per routine of the current run: "notrun", "ok" or "failed"
    tree0,       \* the output tree at the start of the current run
    runs,        \* number of runs of the script started so far
    lastExit,    \* how the previous run ended: "none", "done" or "crashed"
    fontStatus,  \* environment: font path -> "missing", "broken" or "ok"
    badPaths     \* environment: file paths whose save fails (disk write failure)

vars == <<dirs, files, rng, out, pc, idx, order, outcome, tree0, runs, lastExit,
          fontStatus, badPaths>>

----------------------------------------------------------------------------
(* Bounds of the model *)

\* number of wood-grain strokes drawn (the code draws range(5000))
GrainStrokes == 3
\* number of times the script is run one after the other
MaxRuns == 2

----------------------------------------------------------------------------
(* Python's random module, as a deterministic generator: seed() fixes the  *)
(* state, every randint() advances it and derives its value from it.       *)

RandMod == 65537

SeedState(seed) == seed % RandMod

RandStep(s) == (s * 75 + 74) % RandMod

\* random.randint(a, b) drawn in state s (the state after the draw is RandStep(s))
randint(s, a, b) == a + (RandStep(s) % (b - a + 1))

\* random.seed(42): the state before the call is discarded
Reseed_Skipped(s, seed) == s
Reseed(s, seed) == SeedState(seed)

----------------------------------------------------------------------------
(* The output tree *)

Root == <<>>

Min(a, b) == IF a <= b THEN a ELSE b

\* os.path.join(ASSETS_DIR, ...) of a directory and a file name
Path(dir, name) == [dir |-> dir, name |-> name]

\* f'{stem}.png', f'{stem}_{a}.png', f'{stem}_{a}x{b}.png', f'{stem}_{a}x{b}@2x.png'
PlainName(stem) == [kind |-> "plain", stem |-> stem, a |-> 0, b |-> 0, scale |-> 0]
NumName(stem, a) == [kind |-> "num", stem |-> stem, a |-> a, b |-> 0, scale |-> 0]
DimsName(stem, a, b, scale) == [kind |-> "dims", stem |-> stem, a |-> a, b |-> b, scale |-> scale]

NoName == PlainName("")

\* os.makedirs(d, exist_ok=True): d and all its missing ancestors
makedirs(ds, d) == ds \cup {SubSeq(d, 1, k) : k \in 1..Len(d)}

\* Image.new(mode, (w, h)) followed by the drawing calls of one routine
Image(w, h, mode, art, text, color, font, font2, shapes) ==
    [w |-> w, h |-> h, mode |-> mode, art |-> art, text |-> text, color |-> color,
     font |-> font, font2 |-> font2, shapes |-> shapes]

NoImage == Image(0, 0, "", "", "", "", "", "", <<>>)

\* image.resize((w, h), LANCZOS)
resize(img, w, h) == [img EXCEPT !.w = w, !.h = h]

MkdirOp(d) == [op |-> "mkdir", dir |-> d, name |-> NoName, img |-> NoImage]
SaveOp(d, name, img) == [op |-> "save", dir |-> d, name |-> name, img |-> img]

\* Image.save(path): raises when the directory is missing or the write fails
SaveFails(ds, op) == op.dir \notin ds \/ Path(op.dir, op.name) \in badPaths

\* One call of a routine, st being the state of the routine before it.  No
\* exception is caught: once a save has raised (st.ok is FALSE) nothing more
\* is executed, and what was written before stays.
ExecOp_Swallow(st, o) ==
    IF o.op = "mkdir"
    THEN [st EXCEPT !.dirs = makedirs(@, o.dir), !.done = @ + 1]
    ELSE IF SaveFails(st.dirs, o)
         THEN st
         ELSE [st EXCEPT !.files = (Path(o.dir, o.name) :> o.img) @@ @, !.done = @ + 1]

\* os.makedirs without exist_ok=True raises when the directory exists
ExecOp_NoExistOk(st, o) ==
    IF ~st.ok THEN st
    ELSE IF o.op = "mkdir"
         THEN IF o.dir \in st.dirs
              THEN [st EXCEPT !.ok = FALSE]
              ELSE [st EXCEPT !.dirs = makedirs(@, o.dir), !.done = @ + 1]
         ELSE IF SaveFails(st.dirs, o)
              THEN [st EXCEPT !.ok = FALSE]
              ELSE [st EXCEPT !.files = (Path(o.dir, o.name) :> o.img) @@ @, !.done = @ + 1]

ExecOp(st, o) ==
    IF ~st.ok THEN st
    ELSE IF o.op = "mkdir"
         THEN [st EXCEPT !.dirs = makedirs(@, o.dir), !.done = @ + 1]
         ELSE IF SaveFails(st.dirs, o)
              THEN [st EXCEPT !.ok = FALSE]
              ELSE [st EXCEPT !.files = (Path(o.dir, o.name) :> o.img) @@ @, !.done = @ + 1]

\* the calls lo..hi of ops, in order: first those up to the middle, then the
\* others on the state the first ones left
RECURSIVE ExecRange(_, _, _, _)
ExecRange(ops, lo, hi, st) ==
    IF lo > hi THEN st
    ELSE IF lo = hi THEN ExecOp(st, ops[lo])
    ELSE LET mid == (lo + hi) \div 2
             left == ExecRange(ops, lo, mid, st)
         IN  IF left.done >= 0 THEN ExecRange(ops, mid + 1, hi, left) ELSE left

\* a routine run on the tree (ds, fs): ok tells whether it returned
RunOps(ops, ds, fs) ==
    ExecRange(ops, 1, Len(ops), [ok |-> TRUE, dirs |-> ds, files |-> fs, done |-> 0])

----------------------------------------------------------------------------
(* Font resolution *)

STHeiti == "/System/Library/Fonts/STHeiti Light.ttc"
PingFang == "/System/Library/Fonts/PingFang.ttc"
Hiragino == "/System/Library/Fonts/Hiragino Sans GB.ttc"
SFPro == "/System/Library/Fonts/SFProDisplay-Semibold.otf"
Helvetica == "/System/Library/Fonts/Helvetica.ttc"

FontFiles == {STHeiti, PingFang, Hiragino, SFPro, Helvetica}
DefaultFont == "load_default"
NoFont == "None"

\* os.path.exists(path) and ImageFont.truetype(path, size) not raising
exists(path) == fontStatus[path] # "missing"
truetype_ok(path) == fontStatus[path] = "ok"

\* try: truetype(a) / except: try: truetype(b) / except: load_default()
NestedTryFont(a, b) ==
    IF truetype_ok(a) THEN a
    ELSE IF truetype_ok(b) THEN b
    ELSE DefaultFont

\* font = None; for path in font_paths: if exists: try truetype, break /
\* except: continue; if font is None: load_default()
RECURSIVE FontLoop_Break(_, _)
FontLoop_Break(font_paths, i) ==
    IF i > Len(font_paths) THEN NoFont
    ELSE IF exists(font_paths[i])
         THEN IF truetype_ok(font_paths[i]) THEN font_paths[i] ELSE NoFont
         ELSE FontLoop_Break(font_paths, i + 1)

RECURSIVE FontLoop(_, _)
FontLoop(font_paths, i) ==
    IF i > Len(font_paths) THEN NoFont
    ELSE IF exists(font_paths[i])
         THEN IF truetype_ok(font_paths[i]) THEN font_paths[i]
              ELSE FontLoop(font_paths, i + 1)
         ELSE FontLoop(font_paths, i + 1)

font_paths == <<STHeiti, PingFang, Hiragino>>

LoopFont(paths) ==
    LET font == FontLoop(paths, 1)
    IN  IF font = NoFont THEN DefaultFont ELSE font

----------------------------------------------------------------------------
(* Drawing primitives kept in an image: what was drawn, where, and one     *)
(* integer argument (line width, alpha or colour variation).               *)

Shape(kind, box, arg) == [kind |-> kind, box |-> box, arg |-> arg]

\* draw.ellipse([cx - r, cy - r, cx + r, cy + r]) moved down by dy
Circle(kind, cx, cy, r, dy, arg) == Shape(kind, <<cx - r, cy - r + dy, cx + r, cy + r + dy>>, arg)

----------------------------------------------------------------------------
(* save_iconset and create_app_icon *)

\* the size table of save_iconset: pixel size and the label 'AxB' or 'AxB@2x'
IconsetSizes_Clash == <<
    [size |-> 16,   a |-> 16,  b |-> 16,  scale |-> 1],
    [size |-> 32,   a |-> 16,  b |-> 16,  scale |-> 2],
    [size |-> 32,   a |-> 32,  b |-> 32,  scale |-> 1],
    [size |-> 64,   a |-> 32,  b |-> 32,  scale |-> 2],
    [size |-> 128,  a |-> 128, b |-> 128, scale |-> 1],
    [size |-> 256,  a |-> 128, b |-> 128, scale |-> 2],
    [size |-> 256,  a |-> 256, b |-> 256, scale |-> 1],
    [size |-> 512,  a |-> 256, b |-> 256, scale |-> 2],
    [size |-> 512,  a |-> 256, b |-> 256, scale |-> 2],
    [size |-> 1024, a |-> 512, b |-> 512, scale |-> 2] >>
IconsetSizes == <<
    [size |-> 16,   a |-> 16,  b |-> 16,  scale |-> 1],
    [size |-> 32,   a |-> 16,  b |-> 16,  scale |-> 2],
    [size |-> 32,   a |-> 32,  b |-> 32,  scale |-> 1],
    [size |-> 64,   a |-> 32,  b |-> 32,  scale |-> 2],
    [size |-> 128,  a |-> 128, b |-> 128, scale |-> 1],
    [size |-> 256,  a |-> 128, b |-> 128, scale |-> 2],
    [size |-> 256,  a |-> 256, b |-> 256, scale |-> 1],
    [size |-> 512,  a |-> 256, b |-> 256, scale |-> 2],
    [size |-> 512,  a |-> 512, b |-> 512, scale |-> 1],
    [size |-> 1024, a |-> 512, b |-> 512, scale |-> 2] >>

save_iconset(image, name, iconset_dir) ==
    <<MkdirOp(iconset_dir)>> \o
    [k \in 1..Len(IconsetSizes) |->
        SaveOp(iconset_dir,
               DimsName(name, IconsetSizes[k].a, IconsetSizes[k].b, IconsetSizes[k].scale),
               resize(image, IconsetSizes[k].size, IconsetSizes[k].size))]

IconSize == 1024
IconPieceRadius == 280
IconInnerRadius == 240

IconsDir == <<"Icons">>
IconsetDir == <<"Icons", "AppIcon.iconset">>

\* the image create_app_icon draws and returns
final_img ==
    Image(IconSize, IconSize, "RGBA", "app_icon", "U+5E05", "#CC0000",
          NestedTryFont(STHeiti, PingFang), "",
          << Circle("ellipse", IconSize \div 2, IconSize \div 2, IconPieceRadius, 0, 8),
             Circle("ellipse", IconSize \div 2, IconSize \div 2, IconInnerRadius, 0, 0) >>)

create_app_icon ==
    save_iconset(final_img, "AppIcon", IconsetDir) \o
    <<SaveOp(IconsDir, NumName("AppIcon", 1024), final_img)>>

----------------------------------------------------------------------------
(* create_board_styles *)

BoardSize == 1024
BoardMargin == 80
grid_size == BoardSize - 2 * BoardMargin

\* board_dir = os.path.join(ASSETS_DIR, 'BoardStyles'); no makedirs follows
BoardDir_InIcons == <<"Icons">>
BoardDir == <<"BoardStyles">>

\* state of the generator after n draws
RECURSIVE RandAfter(_, _)
RandAfter(s, n) == IF n = 0 THEN s ELSE RandAfter(RandStep(s), n - 1)

\* the strokes of "for _ in range(...)": x, y, length, color_var in this order
RECURSIVE WoodGrain(_, _)
WoodGrain(s, n) ==
    IF n = 0 THEN <<>>
    ELSE LET x == randint(s, 0, BoardSize - 1)
             y == randint(RandAfter(s, 1), 0, BoardSize - 1)
             length == randint(RandAfter(s, 2), 20, 100)
             color_var == randint(RandAfter(s, 3), -20, 20)
         IN  <<Shape("grain", <<x, y, x, y + length>>, color_var)>>
             \o WoodGrain(RandAfter(s, 4), n - 1)

HorizontalLines(width) ==
    [k \in 1..10 |->
        LET y == BoardMargin + ((k - 1) * grid_size) \div 9
        IN  Shape("hline", <<BoardMargin, y, BoardSize - BoardMargin, y>>, width)]

\* for i in range(9): two segments per line, above and below the river
VerticalLines_EdgesCross(width) ==
    [k \in 1..18 |->
        LET i == (k - 1) \div 2
            x == BoardMargin + (i * grid_size) \div 8
        IN  IF i \in {0, 8}
            THEN Shape("vline", <<x, BoardMargin, x, BoardSize - BoardMargin>>, width)
            ELSE IF k % 2 = 1
            THEN Shape("vline", <<x, BoardMargin, x, BoardMargin + (4 * grid_size) \div 9>>, width)
            ELSE Shape("vline", <<x, BoardMargin + (5 * grid_size) \div 9, x, BoardSize - BoardMargin>>, width)]
VerticalLines(width) ==
    [k \in 1..18 |->
        LET i == (k - 1) \div 2
            x == BoardMargin + (i * grid_size) \div 8
        IN  IF k % 2 = 1
            THEN Shape("vline", <<x, BoardMargin, x, BoardMargin + (4 * grid_size) \div 9>>, width)
            ELSE Shape("vline", <<x, BoardMargin + (5 * grid_size) \div 9, x, BoardSize - BoardMargin>>, width)]

palace_margin_x == BoardMargin + (3 * grid_size) \div 8
palace_width == (2 * grid_size) \div 8
palace_top == BoardMargin
palace_bottom == BoardMargin + (4 * grid_size) \div 9
palace_mid_top == BoardMargin + (5 * grid_size) \div 9
palace_mid_bottom == BoardSize - BoardMargin

PalaceDiagonals(width) == <<
    Shape("diag", <<palace_margin_x, palace_top, palace_margin_x + palace_width, palace_bottom>>, width),
    Shape("diag", <<palace_margin_x + palace_width, palace_top, palace_margin_x, palace_bottom>>, width),
    Shape("diag", <<palace_margin_x, palace_mid_bottom, palace_margin_x + palace_width, palace_mid_top>>, width),
    Shape("diag", <<palace_margin_x + palace_width, palace_mid_bottom, palace_margin_x, palace_mid_top>>, width) >>

BoardGrid(width) == HorizontalLines(width) \o VerticalLines(width) \o PalaceDiagonals(width)

\* s is the state of the generator when the grain loop starts
wood_img(s) ==
    Image(BoardSize, BoardSize, "RGB", "wood", "", "#5C4033", "", "",
          WoodGrain(s, GrainStrokes) \o BoardGrid(2))
modern_light ==
    Image(BoardSize, BoardSize, "RGB", "modern_light", "", "#8E8E93", "", "", BoardGrid(1))
modern_dark ==
    Image(BoardSize, BoardSize, "RGB", "modern_dark", "", "#636366", "", "", BoardGrid(1))

create_board_styles(s) == <<
    SaveOp(BoardDir, PlainName("Board_Wood"), wood_img(s)),
    SaveOp(BoardDir, PlainName("Board_Modern_Light"), modern_light),
    SaveOp(BoardDir, PlainName("Board_Modern_Dark"), modern_dark) >>

----------------------------------------------------------------------------
(* create_pieces, create_traditional_piece, create_modern_piece *)

PieceDir == <<"PieceStyles">>

red_pieces == <<"U+5E05", "U+4ED5", "U+76F8", "U+508C", "U+4FE5", "U+70AE", "U+5175">>
black_pieces == <<"U+5C06", "U+58EB", "U+8C61", "U+9A6C", "U+8F66", "U+7832", "U+5352">>

PieceSizes == <<64, 128, 256>>

create_traditional_piece(size, char, color) ==
    LET center == size \div 2
        radius == (size * 45) \div 100
    IN  Image(size, size, "RGBA", "traditional", char,
              IF color = "red" THEN "#CC0000" ELSE "#1A1A1A",
              LoopFont(font_paths), "",
              << Circle("ellipse", center, center, radius + 2, 0, 0),
                 Circle("ellipse", center, center, radius, 0, 0) >>)

create_modern_piece(size, char, color) ==
    LET center == size \div 2
        radius == (size * 42) \div 100
        shadow_offset == (size * 3) \div 100
    IN  Image(size, size, "RGBA", "modern", char, "#FFFFFF",
              LoopFont(font_paths), "",
              << Circle("ellipse", center + shadow_offset, center + shadow_offset, radius, 0, 0),
                 Circle("ellipse", center, center, radius, 0, 0) >>)

piece_image(style, size, char, color) ==
    IF style = "Traditional" THEN create_traditional_piece(size, char, color)
    ELSE create_modern_piece(size, char, color)

\* the directory <piece_dir>/<style>/<str(size)>
StyleDir_NoSize(style, size) == PieceDir \o <<style>>
StyleDir(style, size) == PieceDir \o <<style, ToString(size)>>

\* for i, (red_char, black_char) in enumerate(zip(red_pieces, black_pieces)):
\* the red piece, then the black piece
PieceLoop(style, size) ==
    LET n == Min(Len(red_pieces), Len(black_pieces))
    IN  [k \in 1..(2 * n) |->
            LET i == (k - 1) \div 2
            IN  IF k % 2 = 1
                THEN SaveOp(StyleDir(style, size), NumName("Red", i),
                            piece_image(style, size, red_pieces[i + 1], "red"))
                ELSE SaveOp(StyleDir(style, size), NumName("Black", i),
                            piece_image(style, size, black_pieces[i + 1], "black"))]

PiecesOfSize(size) ==
    <<MkdirOp(StyleDir("Traditional", size))>> \o PieceLoop("Traditional", size) \o
    <<MkdirOp(StyleDir("Modern", size))>> \o PieceLoop("Modern", size)

RECURSIVE PiecesFrom(_)
PiecesFrom(k) ==
    IF k > Len(PieceSizes) THEN <<>>
    ELSE PiecesOfSize(PieceSizes[k]) \o PiecesFrom(k + 1)

create_pieces == PiecesFrom(1)

----------------------------------------------------------------------------
(* create_toolbar_icons *)

ToolbarDir == <<"Toolbar">>

icons == <<
    [icon_name |-> "NewGame",  icon_type |-> "new",      color |-> "#007AFF"],
    [icon_name |-> "Undo",     icon_type |-> "undo",     color |-> "#5856D6"],
    [icon_name |-> "Hint",     icon_type |-> "hint",     color |-> "#FF9500"],
    [icon_name |-> "Settings", icon_type |-> "settings", color |-> "#8E8E93"],
    [icon_name |-> "Analysis", icon_type |-> "analysis", color |-> "#34C759"] >>

ToolbarSizes == <<18, 24, 36>>

\* the if / elif chain over icon_type: the drawing branch taken ("" when none is)
ToolbarBranch(icon_type) ==
    IF icon_type = "new" THEN "plus"
    ELSE IF icon_type = "undo" THEN "arrow"
    ELSE IF icon_type = "hint" THEN "lightbulb"
    ELSE IF icon_type = "settings" THEN "gear"
    ELSE IF icon_type = "analysis" THEN "chart"
    ELSE ""

\* scale_suffix = '' if size <= 24 else '@2x'
scale_suffix_Never(size) == 1
scale_suffix(size) == IF size <= 24 THEN 1 ELSE 2

\* save_size = size if size <= 24 else size // 2
save_size_Full(size) == size
save_size(size) == IF size <= 24 THEN size ELSE size \div 2

ToolbarIcon(icon, size) ==
    SaveOp(ToolbarDir,
           DimsName(icon.icon_name, save_size(size), save_size(size), scale_suffix(size)),
           Image(size, size, "RGBA", ToolbarBranch(icon.icon_type), "", icon.color, "", "", <<>>))

create_toolbar_icons ==
    <<MkdirOp(ToolbarDir)>> \o
    [k \in 1..(Len(icons) * Len(ToolbarSizes)) |->
        ToolbarIcon(icons[((k - 1) \div Len(ToolbarSizes)) + 1],
                    ToolbarSizes[((k - 1) % Len(ToolbarSizes)) + 1])]

----------------------------------------------------------------------------
(* create_ui_elements *)

UIDir == <<"UI">>
UISize == 256

\* for i in range(10, 0, -1): ring of radius + i with alpha 50 - 4 i
SelectionRings ==
    [k \in 1..10 |->
        LET i == 11 - k
        IN  Circle("ring", UISize \div 2, UISize \div 2, (UISize \div 2 - 10) + i, 0, 50 - i * 4)]

\* for i in range(5, 0, -1): ring of radius + 3 i with alpha 100 - 15 i
WarningRings ==
    [k \in 1..5 |->
        LET i == 6 - k
        IN  Circle("ring", UISize \div 2, UISize \div 2, (UISize \div 2 - 10) + i * 3, 0, 100 - i * 15)]

selection == Image(UISize, UISize, "RGBA", "selection", "", "", "", "", SelectionRings)
move_dot ==
    Image(UISize, UISize, "RGBA", "move_dot", "", "", "", "",
          <<Circle("dot", UISize \div 2, UISize \div 2, UISize \div 6, 0, 180)>>)
check_warning == Image(UISize, UISize, "RGBA", "check_warning", "", "", "", "", WarningRings)
last_move ==
    Image(UISize, UISize, "RGBA", "last_move", "", "", "", "",
          <<Circle("ring", UISize \div 2, UISize \div 2, UISize \div 2 - 5, 0, 150)>>)

create_ui_elements == <<
    MkdirOp(UIDir),
    SaveOp(UIDir, PlainName("Selection_Highlight"), selection),
    SaveOp(UIDir, PlainName("Move_Indicator"), move_dot),
    SaveOp(UIDir, PlainName("Check_Warning"), check_warning),
    SaveOp(UIDir, PlainName("Last_Move_Indicator"), last_move) >>

----------------------------------------------------------------------------
(* create_launch_screen *)

LaunchDir == <<"LaunchScreen">>

\* (width, height, name): the name is 'LaunchScreen_<a>x<b>'
LaunchSizes == <<
    [width |-> 800,  height |-> 600,  a |-> 800,  b |-> 600],
    [width |-> 1024, height |-> 768,  a |-> 1024, b |-> 768],
    [width |-> 1200, height |-> 800,  a |-> 1200, b |-> 800],
    [width |-> 1600, height |-> 1000, a |-> 1600, b |-> 1000] >>

launch_image(width, height) ==
    LET center_x == width \div 2
        center_y == height \div 2
        piece_radius == Min(width, height) \div 8
        inner_radius == (piece_radius * 85) \div 100
    IN  Image(width, height, "RGB", "launch", "U+68CB", "#CC0000",
              LoopFont(font_paths), NestedTryFont(SFPro, Helvetica),
              << Circle("ellipse", center_x, center_y, piece_radius, -40, 4),
                 Circle("ellipse", center_x, center_y, inner_radius, -40, 0) >>)

create_launch_screen ==
    <<MkdirOp(LaunchDir)>> \o
    [k \in 1..Len(LaunchSizes) |->
        SaveOp(LaunchDir,
               DimsName("LaunchScreen", LaunchSizes[k].a, LaunchSizes[k].b, 1),
               launch_image(LaunchSizes[k].width, LaunchSizes[k].height))]

----------------------------------------------------------------------------
(* main: the driver *)

Routines == {"create_app_icon", "create_board_styles", "create_pieces",
             "create_toolbar_icons", "create_ui_elements", "create_launch_screen"}

\* the order of the calls in main()
MainOrder == <<"create_app_icon", "create_board_styles", "create_pieces",
               "create_toolbar_icons", "create_ui_elements", "create_launch_screen">>

WoodSeed == 42

\* the makedirs and save calls of routine r; s is the state of the random
\* generator when the routine is entered
Body(r, s) ==
    CASE r = "create_app_icon" -> create_app_icon
      [] r = "create_board_styles" -> create_board_styles(Reseed(s, WoodSeed))
      [] r = "create_pieces" -> create_pieces
      [] r = "create_toolbar_icons" -> create_toolbar_icons
      [] r = "create_ui_elements" -> create_ui_elements
      [] r = "create_launch_screen" -> create_launch_screen

\* the state of the random generator when routine r ends: the grain loop
\* runs before the first save of create_board_styles
RngAfter(r, s) ==
    IF r = "create_board_styles"
    THEN RandAfter(Reseed(s, WoodSeed), 4 * GrainStrokes)
    ELSE s

StartMsg == "Starting asset generation..."
SuccessMsg == "All assets generated successfully!"

\* the line main() prints before calling r
Header(r) ==
    CASE r = "create_app_icon" -> "1. Creating app icon..."
      [] r = "create_board_styles" -> "2. Creating board styles..."
      [] r = "create_pieces" -> "3. Creating pieces..."
      [] r = "create_toolbar_icons" -> "4. Creating toolbar icons..."
      [] r = "create_ui_elements" -> "5. Creating UI elements..."
      [] r = "create_launch_screen" -> "6. Creating launch screen..."

\* the line r prints after its last save
Footer(r) ==
    CASE r = "create_app_icon" -> "App icon created at"
      [] r = "create_board_styles" -> "Board styles created in"
      [] r = "create_pieces" -> "Pieces created in"
      [] r = "create_toolbar_icons" -> "Toolbar icons created in"
      [] r = "create_ui_elements" -> "UI elements created in"
      [] r = "create_launch_screen" -> "Launch screen created at"

\* what main() prints around a call that returned (ok) or raised
Printed(r, ok, last) ==
    <<Header(r)>> \o (IF ok THEN <<Footer(r)>> ELSE <<>>)
                  \o (IF ok /\ last THEN <<SuccessMsg>> ELSE <<>>)

\* main() as a whole: the routines of ord from position i on, each on the tree
\* its predecessors left, stopping at the first one that raises
RECURSIVE RunMain(_, _, _, _, _)
RunMain(ord, i, ds, fs, oc) ==
    IF i > Len(ord) THEN [dirs |-> ds, files |-> fs, outcome |-> oc]
    ELSE LET res == RunOps(Body(ord[i], 0), ds, fs)
         IN  IF res.ok
             THEN RunMain(ord, i + 1, res.dirs, res.files, [oc EXCEPT ![ord[i]] = "ok"])
             ELSE [dirs |-> res.dirs, files |-> res.files,
                   outcome |-> [oc EXCEPT ![ord[i]] = "failed"]]

\* states the random generator of a fresh interpreter may start in
RngStates == {7, 4711}

\* python3 generate_assets.py: a new process enters main()
Launch ==
    /\ pc \in {"idle", "done", "crashed"}
    /\ runs < MaxRuns
    /\ runs' = runs + 1
    /\ lastExit' = IF pc = "idle" THEN "none" ELSE pc
    /\ pc' = "running"
    /\ idx' = 1
    /\ out' = <<StartMsg>>
    /\ outcome' = [r \in Routines |-> "notrun"]
    /\ tree0' = [dirs |-> dirs, files |-> files]
    /\ rng' \in RngStates
    /\ UNCHANGED <<dirs, files, order, fontStatus, badPaths>>

\* main() calls routine r, which returns or raises
Call(r) ==
    /\ pc = "running"
    /\ idx <= Len(order)
    /\ order[idx] = r
    /\ LET res == RunOps(Body(r, rng), dirs, files)
           last == (idx = Len(order))
       IN  /\ dirs' = res.dirs
           /\ files' = res.files
           /\ outcome' = [outcome EXCEPT ![r] = IF res.ok THEN "ok" ELSE "failed"]
           /\ out' = out \o Printed(r, res.ok, last)
           /\ pc' = IF ~res.ok THEN "crashed" ELSE IF last THEN "done" ELSE "running"
           /\ idx' = IF res.ok THEN idx + 1 ELSE idx
    /\ rng' = RngAfter(r, rng)
    /\ UNCHANGED <<order, tree0, runs, lastExit, fontStatus, badPaths>>

main_create_app_icon == Call("create_app_icon")
main_create_board_styles == Call("create_board_styles")
main_create_pieces == Call("create_pieces")
main_create_toolbar_icons == Call("create_toolbar_icons")
main_create_ui_elements == Call("create_ui_elements")
main_create_launch_screen == Call("create_launch_screen")

Next ==
    \/ Launch
    \/ main_create_app_icon
    \/ main_create_board_styles
    \/ main_create_pieces
    \/ main_create_toolbar_icons
    \/ main_create_ui_elements
    \/ main_create_launch_screen

----------------------------------------------------------------------------
(* Initial states *)

TopDirs == {"Icons", "BoardStyles", "PieceStyles", "Toolbar", "UI", "LaunchScreen"}

\* an output tree in which the top-level directories of S exist and are empty
TreeDirs(S) == {Root} \cup {<<d>> : d \in S}

\* disk write failures: no path, or one path of one of the routines
FaultCandidates == {
    Path(IconsetDir, DimsName("AppIcon", 32, 32, 1)),
    Path(IconsDir, NumName("AppIcon", 1024)),
    Path(BoardDir, PlainName("Board_Modern_Light")),
    Path(StyleDir("Modern", 128), NumName("Black", 3)),
    Path(ToolbarDir, DimsName("Hint", 18, 18, 2)),
    Path(UIDir, PlainName("Check_Warning")),
    Path(LaunchDir, DimsName("LaunchScreen", 1200, 800, 1)) }

FaultChoices == {{}} \cup {{p} : p \in FaultCandidates}

FontEnvs == [FontFiles -> {"missing", "broken", "ok"}]

\* no font installed; every font installed but the first one unreadable
FontEnvsSmall == { [f \in FontFiles |-> "missing"],
                   [f \in FontFiles |-> IF f \in {STHeiti, SFPro} THEN "broken" ELSE "ok"] }

InitCommon ==
    /\ files = << >>
    /\ rng = 0
    /\ out = << >>
    /\ pc = "idle"
    /\ idx = 1
    /\ outcome = [r \in Routines |-> "notrun"]
    /\ tree0 = [dirs |-> dirs, files |-> files]
    /\ runs = 0
    /\ lastExit = "none"

\* the script as written, started on any output tree
Init ==
    /\ dirs \in {TreeDirs(S) : S \in SUBSET TopDirs}
    /\ order = MainOrder
    /\ fontStatus \in FontEnvsSmall
    /\ badPaths \in FaultChoices
    /\ InitCommon

Spec == Init /\ [][Next]_vars

\* the script as written, under every font environment
InitFonts ==
    /\ dirs \in {TreeDirs(TopDirs), TreeDirs({"BoardStyles"})}
    /\ order = MainOrder
    /\ fontStatus \in FontEnvs
    /\ badPaths = {}
    /\ InitCommon

SpecFonts == InitFonts /\ [][Next]_vars

\* a driver that calls the six routines in an arbitrary order
Orders == {[i \in 1..Len(MainOrder) |-> MainOrder[p[i]]] : p \in Permutations(1..Len(MainOrder))}

\* a fresh tree, a complete tree, and a complete tree with one failing write
PermEnvs == {
    [dirs |-> TreeDirs({}), bad |-> {}],
    [dirs |-> TreeDirs(TopDirs), bad |-> {}],
    [dirs |-> TreeDirs(TopDirs), bad |-> {Path(ToolbarDir, DimsName("Hint", 18, 18, 2))}] }

InitPerm ==
    /\ \E e \in PermEnvs : dirs = e.dirs /\ badPaths = e.bad
    /\ order \in Orders
    /\ fontStatus = [f \in FontFiles |-> "missing"]
    /\ InitCommon

SpecPerm == InitPerm /\ [][Next]_vars

TypeOK ==
    /\ pc \in {"idle", "running", "done", "crashed"}
    /\ idx \in 1..(Len(order) + 1)
    /\ runs \in 0..MaxRuns
    /\ rng \in 0..(RandMod - 1)
    /\ Root \in dirs

----------------------------------------------------------------------------
(* Vocabulary of the properties *)

Range(f) == {f[x] : x \in DOMAIN f}

\* the top-level directory routine r writes below
TopOf(r) ==
    CASE r = "create_app_icon" -> "Icons"
      [] r = "create_board_styles" -> "BoardStyles"
      [] r = "create_pieces" -> "PieceStyles"
      [] r = "create_toolbar_icons" -> "Toolbar"
      [] r = "create_ui_elements" -> "UI"
      [] r = "create_launch_screen" -> "LaunchScreen"

\* the files and the directories of a tree below one top-level directory
FilesBelow(fs, top) == {p \in DOMAIN fs : Len(p.dir) > 0 /\ p.dir[1] = top}
DirsBelow(ds, top) == {d \in ds : Len(d) > 0 /\ d[1] = top}

\* the save calls of routine r, in order
Saves(r) == SelectSeq(Body(r, 0), LAMBDA o : o.op = "save")

\* the file of save call o is on disk with the image o saved
Written(o) ==
    /\ Path(o.dir, o.name) \in DOMAIN files
    /\ files[Path(o.dir, o.name)] = o.img

\* the file of save call o is as it was when the run started
NotWritten(o) ==
    LET p == Path(o.dir, o.name)
    IN  IF p \in DOMAIN tree0.files
        THEN p \in DOMAIN files /\ files[p] = tree0.files[p]
        ELSE p \notin DOMAIN files

\* nothing below the directory of routine r changed since the run started
Untouched(r) ==
    /\ DirsBelow(dirs, TopOf(r)) = DirsBelow(tree0.dirs, TopOf(r))
    /\ FilesBelow(files, TopOf(r)) = FilesBelow(tree0.files, TopOf(r))
    /\ \A p \in FilesBelow(files, TopOf(r)) : files[p] = tree0.files[p]

\* the declared assets, listed by path
IconLabels == {<<16, 1>>, <<16, 2>>, <<32, 1>>, <<32, 2>>, <<128, 1>>, <<128, 2>>,
               <<256, 1>>, <<256, 2>>, <<512, 1>>, <<512, 2>>}
IconAssets ==
    {Path(<<"Icons", "AppIcon.iconset">>, DimsName("AppIcon", l[1], l[1], l[2])) : l \in IconLabels}
    \cup {Path(<<"Icons">>, NumName("AppIcon", 1024))}
BoardAssets ==
    {Path(<<"BoardStyles">>, PlainName(n)) : n \in {"Board_Wood", "Board_Modern_Light", "Board_Modern_Dark"}}
PieceAssets ==
    {Path(<<"PieceStyles", st[1], st[2]>>, NumName(side, i)) :
        st \in {"Traditional", "Modern"} \X {"64", "128", "256"},
        side \in {"Red", "Black"}, i \in 0..6}
ToolbarActions == {"NewGame", "Undo", "Hint", "Settings", "Analysis"}
ToolbarAssets ==
    {Path(<<"Toolbar">>, DimsName(a, l[1], l[1], l[2])) :
        a \in ToolbarActions, l \in {<<18, 1>>, <<24, 1>>, <<18, 2>>}}
UIAssets ==
    {Path(<<"UI">>, PlainName(n)) :
        n \in {"Selection_Highlight", "Move_Indicator", "Check_Warning", "Last_Move_Indicator"}}
LaunchAssets ==
    {Path(<<"LaunchScreen">>, DimsName("LaunchScreen", l[1], l[2], 1)) :
        l \in {<<800, 600>>, <<1024, 768>>, <<1200, 800>>, <<1600, 1000>>}}
DeclaredAssets ==
    IconAssets \cup BoardAssets \cup PieceAssets \cup ToolbarAssets \cup UIAssets \cup LaunchAssets

----------------------------------------------------------------------------
(* C1: from every initial output tree, the fresh tree without any of the   *)
(* six subdirectories included, a run of main() without a disk write       *)
(* failure reaches its end, and all 121 declared assets then exist.        *)
C1_AllAssetsProduced ==
    (badPaths = {} /\ pc \in {"done", "crashed"}) =>
        /\ pc = "done"
        /\ Cardinality(DeclaredAssets) = 121
        /\ DeclaredAssets \subseteq DOMAIN files

----------------------------------------------------------------------------
(* C2: a failing save is never caught.  A routine that returned wrote all  *)
(* its files; when a save fails the run is dead at that point: the saves   *)
(* of the routine before the failing one are on disk, the failing one and  *)
(* the later ones were not executed, the routines after it in the order    *)
(* were not run and changed nothing, the routines before it returned, and  *)
(* the success message is printed exactly when all six routines returned.  *)
C2_FailStop ==
    /\ \A r \in Routines :
          outcome[r] = "ok" => LET S == Saves(r) IN \A k \in 1..Len(S) : Written(S[k])
    /\ (SuccessMsg \in Range(out)) <=> (pc = "done")
    /\ pc = "done" => \A r \in Routines : outcome[r] = "ok"
    /\ pc = "crashed" =>
          /\ outcome[order[idx]] = "failed"
          /\ \A j \in 1..Len(order) :
                /\ j < idx => outcome[order[j]] = "ok"
                /\ j > idx => outcome[order[j]] = "notrun" /\ Untouched(order[j])
          /\ Footer(order[idx]) \notin Range(out)
          /\ LET S == Saves(order[idx])
             IN  \E k \in 1..Len(S) :
                    /\ \A m \in 1..(k - 1) : Written(S[m])
                    /\ \A m \in k..Len(S) : NotWritten(S[m])
                    /\ \/ Path(S[k].dir, S[k].name) \in badPaths
                       \/ S[k].dir \notin dirs

\* a run died in the middle of create_pieces: the pieces saved before the
\* failing save are on disk, the later ones are not
C2_Witness ==
    /\ pc = "crashed"
    /\ order[idx] = "create_pieces"
    /\ runs = 1
    /\ Path(StyleDir("Traditional", 64), NumName("Red", 0)) \in DOMAIN files
    /\ Path(StyleDir("Modern", 128), NumName("Black", 3)) \notin DOMAIN files
    /\ Path(StyleDir("Modern", 256), NumName("Red", 0)) \notin DOMAIN files
    /\ FilesBelow(files, "Toolbar") = {}

----------------------------------------------------------------------------
(* C3: font resolution never fails and never leaves the font unset.  At    *)
(* every text-drawing site the font is the first candidate of the site's   *)
(* list that exists and loads, and the default font exactly when there is  *)
(* none; a candidate that exists but does not load is passed over.         *)

\* f is what resolution over the candidates cands must give
FirstUsable(f, cands) ==
    /\ f # NoFont
    /\ f # ""
    /\ \/ /\ f = DefaultFont
          /\ \A i \in 1..Len(cands) : fontStatus[cands[i]] # "ok"
       \/ \E i \in 1..Len(cands) :
             /\ f = cands[i]
             /\ fontStatus[cands[i]] = "ok"
             /\ \A j \in 1..(i - 1) : fontStatus[cands[j]] # "ok"

C3_FontResolved ==
    \A p \in DOMAIN files :
        LET img == files[p]
        IN  /\ img.art = "app_icon" =>
                FirstUsable(img.font, <<"/System/Library/Fonts/STHeiti Light.ttc",
                                        "/System/Library/Fonts/PingFang.ttc">>)
            /\ img.art \in {"traditional", "modern", "launch"} =>
                FirstUsable(img.font, <<"/System/Library/Fonts/STHeiti Light.ttc",
                                        "/System/Library/Fonts/PingFang.ttc",
                                        "/System/Library/Fonts/Hiragino Sans GB.ttc">>)
            /\ img.art = "launch" =>
                FirstUsable(img.font2, <<"/System/Library/Fonts/SFProDisplay-Semibold.otf",
                                         "/System/Library/Fonts/Helvetica.ttc">>)

\* all assets written where the first candidate exists but does not load and
\* the second one is missing: the pieces carry the third candidate
C3_Witness ==
    /\ pc = "done"
    /\ fontStatus[STHeiti] = "broken"
    /\ fontStatus[PingFang] = "missing"
    /\ fontStatus[Hiragino] = "ok"
    /\ fontStatus[SFPro] = "broken"
    /\ fontStatus[Helvetica] = "broken"
    /\ files[Path(StyleDir("Modern", 64), NumName("Black", 6))].font = Hiragino
    /\ files[Path(IconsDir, NumName("AppIcon", 1024))].font = DefaultFont
    /\ files[Path(LaunchDir, DimsName("LaunchScreen", 800, 600, 1))].font2 = DefaultFont

----------------------------------------------------------------------------
(* C4: every written PNG has non-zero pixel dimensions, and they agree     *)
(* with the size its path encodes: AxB is A by B pixels, AxB@2x is 2A by   *)
(* 2B, a piece in directory <size> is size by size with size one of 64,    *)
(* 128, 256, AppIcon_1024 is 1024 square, the board textures are 1024      *)
(* square and the UI overlays 256 square.                                  *)
C4_Dimensions ==
    \A p \in DOMAIN files :
        LET img == files[p]
        IN  /\ img.w > 0 /\ img.h > 0
            /\ p.name.kind = "dims" =>
                  /\ p.name.scale \in {1, 2}
                  /\ img.w = p.name.a * p.name.scale
                  /\ img.h = p.name.b * p.name.scale
            /\ p.dir[1] \in {"Icons", "Toolbar"} => img.w = img.h
            /\ p.dir[1] = "Icons" /\ p.name.kind = "num" => img.w = p.name.a
            /\ p.dir[1] = "PieceStyles" =>
                  /\ img.w \in {64, 128, 256}
                  /\ img.h = img.w
                  /\ p.dir[3] = ToString(img.w)
            /\ p.dir[1] = "BoardStyles" => img.w = 1024 /\ img.h = 1024
            /\ p.dir[1] = "UI" => img.w = 256 /\ img.h = 256

\* all assets written, the 36 pixel toolbar image under its @2x name
C4_Witness ==
    /\ pc = "done"
    /\ DeclaredAssets \subseteq DOMAIN files
    /\ files[Path(ToolbarDir, DimsName("Undo", 18, 18, 2))].w = 36
    /\ files[Path(IconsetDir, DimsName("AppIcon", 512, 512, 2))].w = 1024

----------------------------------------------------------------------------
(* C5: the wood-grain texture is deterministic.  Whatever the state of the *)
(* random generator when create_board_styles is entered, and in whichever  *)
(* run, Board_Wood.png holds the strokes drawn from seed 42 and the        *)
(* generator is left in the same state; no other routine draws a random    *)
(* number.                                                                 *)
WoodPath == Path(<<"BoardStyles">>, PlainName("Board_Wood"))

C5_GrainDeterministic ==
    [][ /\ WoodPath \in DOMAIN files' =>
              SubSeq(files'[WoodPath].shapes, 1, GrainStrokes)
                  = WoodGrain(SeedState(42), GrainStrokes)
        /\ (pc = "running" /\ order[idx] = "create_board_styles") =>
              rng' = RandAfter(SeedState(42), 4 * GrainStrokes)
        /\ (pc = "running" /\ order[idx] # "create_board_styles") => rng' = rng
      ]_vars

\* the texture written by a second run, whose generator is in another state
\* than the one create_board_styles left in the first run
C5_Witness ==
    /\ runs = 2
    /\ pc = "running"
    /\ outcome["create_board_styles"] = "ok"
    /\ WoodPath \in DOMAIN files
    /\ WoodPath \in DOMAIN tree0.files
    /\ Len(files[WoodPath].shapes) > GrainStrokes
    /\ files[WoodPath].shapes[1].kind = "grain"

----------------------------------------------------------------------------
(* C6: the order of the six routines is cosmetic: whatever the order in    *)
(* which a driver calls them from a given output tree, the run ends with   *)
(* the outcome per routine and the tree that main()'s own order gives.     *)
(* Stated for the output trees that hold the BoardStyles directory, on     *)
(* which every routine finds the directory it saves into.                  *)
C6_OrderCosmetic ==
    (pc \in {"done", "crashed"} /\ <<"BoardStyles">> \in tree0.dirs) =>
        LET ref == RunMain(MainOrder, 1, tree0.dirs, tree0.files,
                           [r \in Routines |-> "notrun"])
        IN  /\ outcome = ref.outcome
            /\ files = ref.files
            /\ dirs = ref.dirs

(* C6 as amended: a routine that was called has the outcome, and leaves    *)
(* below its own directory the directories and files, that it gives when   *)
(* called alone on the tree the run started from, whichever routines ran   *)
(* before it; and a run in which all six routines returned ends with the   *)
(* tree that main()'s own order gives.  (When a routine raises, the ones   *)
(* after it in the order are not called, so that tree depends on the       *)
(* order.)                                                                 *)
C6_RoutinesIndependent ==
    /\ \A r \in Routines :
          outcome[r] # "notrun" =>
              LET alone == RunOps(Body(r, 0), tree0.dirs, tree0.files)
              IN  /\ (outcome[r] = "ok") <=> alone.ok
                  /\ DirsBelow(dirs, TopOf(r)) = DirsBelow(alone.dirs, TopOf(r))
                  /\ FilesBelow(files, TopOf(r)) = FilesBelow(alone.files, TopOf(r))
                  /\ \A p \in FilesBelow(files, TopOf(r)) : files[p] = alone.files[p]
    /\ pc = "done" =>
          LET ref == RunMain(MainOrder, 1, tree0.dirs, tree0.files,
                             [r \in Routines |-> "notrun"])
          IN  /\ outcome = ref.outcome
              /\ files = ref.files
              /\ dirs = ref.dirs

\* create_board_styles called last on a tree it can write to, after the five
\* other routines returned
C6_Witness ==
    /\ pc = "done"
    /\ order[6] = "create_board_styles"
    /\ order[1] = "create_launch_screen"
    /\ DeclaredAssets \subseteq DOMAIN files

----------------------------------------------------------------------------
(* C7: in each board style the palace diagonals stay in the two palace     *)
(* zones of 3 by 3 intersections: every diagonal runs between the grid     *)
(* columns 3 and 5, and between the rows 0 and 2 or the rows 7 and 9.      *)
GridRow(i) == 80 + (i * (1024 - 2 * 80)) \div 9
GridCol(j) == 80 + (j * (1024 - 2 * 80)) \div 8

C7_PalaceZones ==
    \A p \in FilesBelow(files, "BoardStyles") :
        \A k \in 1..Len(files[p].shapes) :
            LET sh == files[p].shapes[k]
            IN  sh.kind = "diag" =>
                    /\ {sh.box[1], sh.box[3]} = {GridCol(3), GridCol(5)}
                    /\ \/ {sh.box[2], sh.box[4]} = {GridRow(0), GridRow(2)}
                       \/ {sh.box[2], sh.box[4]} = {GridRow(7), GridRow(9)}

----------------------------------------------------------------------------
(* C8: when create_pieces returns, for every size in 64, 128, 256, every   *)
(* style and every index i in 0..6 the files <style>/<size>/Red_i.png and  *)
(* Black_i.png exist, of that size and style, with the i-th character of   *)
(* the red and of the black table; the tables have the same length, and    *)
(* the 84 saves go to 84 distinct paths.                                   *)
C8_Pieces ==
    outcome["create_pieces"] = "ok" =>
        /\ Len(red_pieces) = 7 /\ Len(black_pieces) = 7
        /\ \A style \in {"Traditional", "Modern"}, size \in {64, 128, 256}, i \in 0..6 :
              LET d == <<"PieceStyles", style, ToString(size)>>
                  red == Path(d, NumName("Red", i))
                  black == Path(d, NumName("Black", i))
                  art == IF style = "Traditional" THEN "traditional" ELSE "modern"
              IN  /\ red \in DOMAIN files /\ black \in DOMAIN files
                  /\ files[red].text = red_pieces[i + 1]
                  /\ files[black].text = black_pieces[i + 1]
                  /\ files[red].w = size /\ files[black].w = size
                  /\ files[red].art = art /\ files[black].art = art
        /\ LET S == Saves("create_pieces")
           IN  /\ Len(S) = 84
               /\ Cardinality({Path(S[k].dir, S[k].name) : k \in 1..Len(S)}) = 84
        /\ Cardinality(FilesBelow(files, "PieceStyles")) = 84

\* create_pieces returned: the last black piece of each size is on disk
C8_Witness ==
    /\ outcome["create_pieces"] = "ok"
    /\ files[Path(StyleDir("Traditional", 64), NumName("Black", 6))].text = "U+5352"
    /\ files[Path(StyleDir("Modern", 256), NumName("Red", 0))].text = "U+5E05"
    /\ files[Path(StyleDir("Modern", 256), NumName("Red", 0))].w = 256

----------------------------------------------------------------------------
(* C9: when create_toolbar_icons returns, each of the five actions has     *)
(* exactly three files: <action>_18x18.png of 18 pixels, <action>_24x24.png *)
(* of 24 pixels and <action>_18x18@2x.png of 36 pixels; the 15 names are   *)
(* distinct, and each action was drawn by one of the five branches, its    *)
(* own.                                                                    *)
C9_Toolbar ==
    outcome["create_toolbar_icons"] = "ok" =>
        /\ \A a \in ToolbarActions :
              LET f18 == Path(<<"Toolbar">>, DimsName(a, 18, 18, 1))
                  f24 == Path(<<"Toolbar">>, DimsName(a, 24, 24, 1))
                  f36 == Path(<<"Toolbar">>, DimsName(a, 18, 18, 2))
              IN  /\ {f18, f24, f36} \subseteq DOMAIN files
                  /\ files[f18].w = 18 /\ files[f24].w = 24 /\ files[f36].w = 36
                  /\ files[f18].art \in {"plus", "arrow", "lightbulb", "gear", "chart"}
                  /\ files[f24].art = files[f18].art /\ files[f36].art = files[f18].art
                  /\ \A b \in ToolbarActions \ {a} :
                        files[Path(<<"Toolbar">>, DimsName(b, 18, 18, 1))].art # files[f18].art
                  /\ Cardinality({p \in FilesBelow(files, "Toolbar") : p.name.stem = a}) = 3
        /\ Cardinality(FilesBelow(files, "Toolbar")) = 15
        /\ LET S == Saves("create_toolbar_icons")
           IN  Cardinality({Path(S[k].dir, S[k].name) : k \in 1..Len(S)}) = 15

\* create_toolbar_icons returned: both the 18 and the 36 pixel image of an
\* action are on disk
C9_Witness ==
    /\ outcome["create_toolbar_icons"] = "ok"
    /\ files[Path(ToolbarDir, DimsName("Analysis", 18, 18, 1))].w = 18
    /\ files[Path(ToolbarDir, DimsName("Analysis", 18, 18, 2))].w = 36
    /\ files[Path(ToolbarDir, DimsName("Analysis", 18, 18, 2))].art = "chart"

----------------------------------------------------------------------------
(* C10: when create_app_icon returns, the iconset directory holds exactly  *)
(* ten files AppIcon_<label>.png, one per entry of the size table, with    *)
(* ten distinct labels, each the source image resized to the pixel size of *)
(* its own entry.                                                          *)
IconsetTable == {<<16, 16, 1>>, <<32, 16, 2>>, <<32, 32, 1>>, <<64, 32, 2>>,
                 <<128, 128, 1>>, <<256, 128, 2>>, <<256, 256, 1>>, <<512, 256, 2>>,
                 <<512, 512, 1>>, <<1024, 512, 2>>}

C10_Iconset ==
    outcome["create_app_icon"] = "ok" =>
        LET d == <<"Icons", "AppIcon.iconset">>
            source == files[Path(<<"Icons">>, NumName("AppIcon", 1024))]
            inSet == {p \in DOMAIN files : p.dir = d}
        IN  /\ Cardinality(inSet) = 10
            /\ inSet = {Path(d, DimsName("AppIcon", e[2], e[2], e[3])) : e \in IconsetTable}
            /\ \A e \in IconsetTable :
                  files[Path(d, DimsName("AppIcon", e[2], e[2], e[3]))]
                      = [source EXCEPT !.w = e[1], !.h = e[1]]
            /\ source.w = 1024 /\ source.h = 1024

\* create_app_icon returned: two entries of the same pixel size are both on disk
C10_Witness ==
    /\ outcome["create_app_icon"] = "ok"
    /\ files[Path(IconsetDir, DimsName("AppIcon", 256, 256, 2))].w = 512
    /\ files[Path(IconsetDir, DimsName("AppIcon", 512, 512, 1))].w = 512

----------------------------------------------------------------------------
(* C11: the board grid has the same geometry in the three styles.  The 10  *)
(* horizontal lines lie at y = 80 + 96 i, i in 0..9, from x = 80 to 944,   *)
(* and the 9 vertical lines at x = 80 + 108 i, i in 0..8; the divisions by *)
(* 9 and by 8 are exact; the first and the last line of each direction lie *)
(* on the margins 80 and 944; every vertical line, the edge lines too, is  *)
(* two segments, from 80 to 464 and from 560 to 944, so that no vertical   *)
(* segment has a point with y strictly between 464 and 560.                *)
LinesOf(img, kind) == SelectSeq(img.shapes, LAMBDA sh : sh.kind = kind)

\* the vertical segment sh has a point at height y
Covers(sh, y) ==
    \/ sh.box[2] <= y /\ y <= sh.box[4]
    \/ sh.box[4] <= y /\ y <= sh.box[2]

C11_GridGeometry ==
    \A p \in FilesBelow(files, "BoardStyles") :
        LET h == LinesOf(files[p], "hline")
            v == LinesOf(files[p], "vline")
        IN  /\ Len(h) = 10
            /\ \A i \in 0..9 :
                  /\ h[i + 1].box = <<80, 80 + 96 * i, 944, 80 + 96 * i>>
                  /\ 9 * (h[i + 1].box[2] - 80) = i * (1024 - 2 * 80)
            /\ h[1].box[2] = 80 /\ h[10].box[2] = 944
            /\ Len(v) = 18
            /\ \A i \in 0..8 :
                  /\ v[2 * i + 1].box = <<80 + 108 * i, 80, 80 + 108 * i, 464>>
                  /\ v[2 * i + 2].box = <<80 + 108 * i, 560, 80 + 108 * i, 944>>
                  /\ 8 * (v[2 * i + 1].box[1] - 80) = i * (1024 - 2 * 80)
            /\ v[1].box[1] = 80 /\ v[18].box[1] = 944
            /\ \A k \in 1..Len(v), y \in 465..559 : ~Covers(v[k], y)
            /\ \A q \in FilesBelow(files, "BoardStyles") :
                  LET hq == LinesOf(files[q], "hline")
                      vq == LinesOf(files[q], "vline")
                  IN  /\ [k \in 1..Len(hq) |-> hq[k].box] = [k \in 1..Len(h) |-> h[k].box]
                      /\ [k \in 1..Len(vq) |-> vq[k].box] = [k \in 1..Len(v) |-> v[k].box]

\* the three board textures are on disk, the wood one with lines of width 2
C11_Witness ==
    /\ outcome["create_board_styles"] = "ok"
    /\ BoardAssets \subseteq DOMAIN files
    /\ LinesOf(files[WoodPath], "vline")[1].arg = 2
    /\ LinesOf(files[Path(<<"BoardStyles">>, PlainName("Board_Modern_Dark"))], "vline")[18].arg = 1

----------------------------------------------------------------------------
(* C12: re-running is idempotent on the output tree.  A run started on the *)
(* tree a successful run left does not fail, at no point holds a directory *)
(* or a file the first run did not leave or lacks one it left, and ends    *)
(* with exactly the directories and files, contents included, it started   *)
(* with.                                                                   *)
C12_RerunIdempotent ==
    lastExit = "done" =>
        /\ pc # "crashed"
        /\ dirs = tree0.dirs
        /\ DOMAIN files = DOMAIN tree0.files
        /\ pc = "done" => files = tree0.files /\ DeclaredAssets \subseteq DOMAIN files

\* the second of two runs returned, each on a tree with existing directories
C12_Witness ==
    /\ lastExit = "done"
    /\ pc = "done"
    /\ runs = 2
    /\ \A r \in Routines : outcome[r] = "ok"
    /\ Cardinality(DOMAIN files) = 121

----------------------------------------------------------------------------
(* C13: every ring and dot drawn by create_ui_elements stays on its 256 by *)
(* 256 canvas and has a valid opacity: the 10 selection rings, the move    *)
(* dot, the 5 check-warning rings and the last-move ring have their        *)
(* bounding box within the pixel coordinates 0..255 in both axes and an    *)
(* alpha in 0..255, and of two rings of one image the one closer to the    *)
(* centre has the larger alpha.                                            *)
C13_RingsOnCanvas ==
    \A p \in FilesBelow(files, "UI") :
        LET sh == files[p].shapes
        IN  /\ p.name.stem = "Selection_Highlight" => Len(sh) = 10
            /\ p.name.stem = "Check_Warning" => Len(sh) = 5
            /\ p.name.stem \in {"Move_Indicator", "Last_Move_Indicator"} => Len(sh) = 1
            /\ \A k \in 1..Len(sh) :
                  /\ \A c \in 1..4 : sh[k].box[c] \in 0..255
                  /\ sh[k].arg \in 0..255
                  /\ \A m \in 1..Len(sh) :
                        sh[m].box[1] > sh[k].box[1] => sh[m].arg > sh[k].arg

====
